---- MODULE Spec2Model ----
(***************************************************************************)
(* The PGlite SQL client (src/src/PGlite/PGliteClient.ts and its earlier   *)
(* revision in src/unnamed/part_010): fibers that issue bare statements    *)
(* and withTransaction calls against the one shared engine connection.     *)
(*                                                                         *)
(* A statement is in flight between the call of sdk.query and the          *)
(* settling of its promise; the engine answers each statement with         *)
(* success or failure.  Every fiber records the statements it has sent     *)
(* during its current top-level call in sent[f].                           *)
(*                                                                         *)
(* Three further specifications cover the parts that are functions of      *)
(* their input: SpecCompiler (the hooks of makeCompiler), SpecClient (the   *)
(* methods of PGliteConnectionImpl and the scope of the connection) and    *)
(* SpecCache (CacheService of src/unnamed/part_007).                       *)
(***************************************************************************)
EXTENDS Integers, Sequences, FiniteSets, TLC

\* ------------------------------------------------------------- bounds ----
NumFibers == 2   \* fibers sharing the client
MaxOps == 3      \* execute and withTransaction calls made in a run
MaxDepth == 1    \* deepest savepoint counter
MaxFaults == 2   \* statements the engine rejects plus interrupts sent in a run
MaxTicks == 3    \* times the clock advances between cache operations
MaxRows == 2     \* rows the engine returns for a statement, rows of a bulk helper
MaxName == 2     \* characters of an identifier handed to the compiler
NumCallers == 3  \* concurrent callers of debounceQuery
MaxItems == 1    \* users, orders, products fetched for a sync; texts of a batch

Fibers == 1..NumFibers

VARIABLES
    gated,             \* TRUE: make of part_010:128-290 (semaphore); FALSE: PGliteClient.ts
    semaphore,         \* holder of the single permit, 0 when free
    pc,                \* position of each fiber
    PgliteTransaction, \* per fiber: counters of its active withTransaction calls,
                       \* the top being the ambient [conn, counter] while in a body
    exit,              \* exit carried while a closing statement is in flight
                       \* (ran: the body was started; cause: its exit)
    sent,              \* statements the fiber sent in its current top-level call
    route,             \* acquirer branch that supplied the connection of the last statement
    interrupted,       \* an interrupt is pending or has been delivered
    txOpen,            \* the engine has a transaction block open
    result,            \* what the last finished call returned (ran: its body was
                       \* started; body: the body's exit; cause: the call's exit)
    started,           \* execute and withTransaction calls made so far
    faults,            \* statements rejected by the engine and interrupts sent so far
    compiled,          \* the compiler call under study: its input and its output
    client,            \* make's options, the client's scope and sdk, the last query
    cacheRef,          \* CacheService: the Map held by cacheRef
    clock,             \* Date.now() and the number of times it has advanced
    got,               \* what the last CacheService.get returned
    debounce,          \* QueryDebounceService: pendingQueries, the queues, the callers
    embedding          \* PGLiteQAService: the embedding call under study

txVars == <<gated, semaphore, pc, PgliteTransaction, exit, sent, route,
            interrupted, txOpen, result, started, faults>>

\* the state of the compiler, of the client's lifecycle, of the cache, of the
\* debounce service and of the embedding calls, which the statements and
\* transactions of Spec never touch
unitVars == <<compiled, client, cacheRef, clock, got, debounce, embedding>>

vars == <<txVars, unitVars>>

\* ---------------------------------------------------------- statements ---
BEGIN == [sql |-> "BEGIN", id |-> 0]
COMMIT == [sql |-> "COMMIT", id |-> 0]
ROLLBACK == [sql |-> "ROLLBACK", id |-> 0]
INSERT == [sql |-> "INSERT", id |-> 0]

savepoint(id) == [sql |-> "SAVEPOINT", id |-> id]

rollbackSavepoint(id) == [sql |-> "ROLLBACK_TO", id |-> id]

\* A cause is a set of atoms; the empty set is success.
Fail(what) == [t |-> "Fail", e |-> what]
Die(what) == [t |-> "Die", e |-> what]
Interrupt == [t |-> "Interrupt", e |-> "fiber"]
BodyErrors == {Fail("body"), Die("body")}

NoResult == [op |-> "none", id |-> 0, ran |-> FALSE, body |-> {}, cause |-> {}]
NoExit == [ran |-> FALSE, cause |-> {}]

\* ------------------------------------------------------------ helpers ----
Last(s) == s[Len(s)]
Front(s) == SubSeq(s, 1, Len(s) - 1)

\* the record of a statement handed to sdk.query
Sending(stmt) == [sql |-> stmt.sql, id |-> stmt.id, res |-> "sent"]

\* the trace with its newest statement settled with res
Settled(trace, res) == [trace EXCEPT ![Len(trace)].res = res]

Outcome(ok) == IF ok THEN "ok" ELSE "err"

\* the engine's transaction block after it answered a statement
query(sql, ok, open) ==
    IF ~ok THEN open
    ELSE IF sql = "BEGIN" THEN TRUE
    ELSE IF sql \in {"COMMIT", "ROLLBACK"} THEN FALSE
    ELSE open

\* Effect.tryPromise's catch: a rejected query is a typed SqlError failure
run(sql, ok) == IF ok THEN {} ELSE {Fail(sql)}

\* Effect.orDie: a typed failure becomes a defect
orDie(cause) == {IF a.t = "Fail" THEN Die(a.e) ELSE a : a \in cause}

\* (mutant) the ambient transaction is not looked up
acquirerFresh(ctx) == "onNone"

\* acquirer: the branch of Option.match on the ambient PgliteTransaction
acquirer(ctx) == IF ctx = <<>> THEN "onNone" ELSE "onSome"

\* (mutant) the success and failure branches of the exit are swapped at depth 0
closingSwapped(id, ex) ==
    IF ex = {}
    THEN IF id = 0 THEN ROLLBACK ELSE [sql |-> "none", id |-> id]
    ELSE IF id > 0 THEN rollbackSavepoint(id) ELSE COMMIT

\* (mutant) an exit that is only an interrupt is closed like a success
closingInterruptCommits(id, ex) ==
    IF ex = {} \/ ex = {Interrupt}
    THEN IF id = 0 THEN COMMIT ELSE [sql |-> "none", id |-> id]
    ELSE IF id > 0 THEN rollbackSavepoint(id) ELSE ROLLBACK

\* the closing statement makeWithTransaction picks for frame id on exit ex
closing(id, ex) ==
    IF ex = {}
    THEN IF id = 0 THEN COMMIT ELSE [sql |-> "none", id |-> id]
    ELSE IF id > 0 THEN rollbackSavepoint(id) ELSE ROLLBACK

\* (mutant) a nested call reuses the counter of its parent
nextIdOfParent(ctx) == IF ctx = <<>> THEN 0 ELSE Last(ctx)

\* the counter of a withTransaction entered under context ctx
nextId(ctx) == IF ctx = <<>> THEN 0 ELSE Last(ctx) + 1

\* ---------------------------------------------------------------- Init ---
\* CacheService: the cache keys and the data stored under them
Keys == {"k1", "k2"}
Data == {"d1", "d2"}

\* new Map(): no key has an item
NoItem == [data |-> "none", timestamp |-> -1]
Map == [k \in Keys |-> NoItem]

\* no compiler call, no client, no CacheService.get, no debounce service and
\* no embedding call so far
NoStatement == [op |-> "none"]
NoClient == [phase |-> "none"]
NoCall == [key |-> "none", returned |-> "none"]
NoDebounce == [service |-> "none"]
NoEmbedding == [fn |-> "none"]

\* every fiber idle and nothing sent
Idle ==
    /\ semaphore = 0
    /\ pc = [f \in Fibers |-> "idle"]
    /\ PgliteTransaction = [f \in Fibers |-> <<>>]
    /\ exit = [f \in Fibers |-> NoExit]
    /\ sent = [f \in Fibers |-> <<>>]
    /\ route = [f \in Fibers |-> "none"]
    /\ interrupted = [f \in Fibers |-> FALSE]
    /\ txOpen = FALSE
    /\ result = [f \in Fibers |-> NoResult]
    /\ started = 0
    /\ faults = 0

\* the cache after Ref.make(new Map()), at the time the service is built
CacheService ==
    /\ cacheRef = Map
    /\ clock = [now |-> 0, ticks |-> 0]
    /\ got = NoCall

Init ==
    /\ gated \in BOOLEAN
    /\ Idle
    /\ compiled = NoStatement
    /\ client = NoClient
    /\ CacheService
    /\ debounce = NoDebounce
    /\ embedding = NoEmbedding

\* ------------------------------------------------ statements in flight ---
Sql == {"BEGIN", "acqROLLBACK", "SAVEPOINT", "COMMIT", "ROLLBACK", "ROLLBACK_TO"}
AwaitingEngine(f) == pc[f] \in Sql \cup {"query"}

\* the answers the engine may still give
Answers == IF faults < MaxFaults THEN BOOLEAN ELSE {TRUE}
Count(ok) == IF ok THEN faults ELSE faults + 1

\* ensuring(effect, finalizer): the finalizer's defect joins the effect's cause
ensuring(cause, fin) == cause \cup fin

\* zipRight(withScope, exit): a failed closing statement replaces the exit
zipRight(closed, ex) == IF closed # {} THEN closed ELSE ex

\* makeWithTransaction after Effect.exit: issue the closing statement of the
\* frame on top of ctx, or return at once when there is none (nested success)
Close(f, ctx, ran, ex, trace, res) ==
    LET id == Last(ctx)
        stmt == closing(id, ex)
    IN  IF stmt.sql = "none"
        THEN /\ pc' = [pc EXCEPT ![f] = "body"]
             /\ PgliteTransaction' = [PgliteTransaction EXCEPT ![f] = Front(ctx)]
             /\ sent' = [sent EXCEPT ![f] = trace]
             /\ exit' = [exit EXCEPT ![f] = NoExit]
             /\ result' = [res EXCEPT ![f] =
                              [op |-> "tx", id |-> id, ran |-> TRUE, body |-> ex,
                               cause |-> ex]]
        ELSE /\ pc' = [pc EXCEPT ![f] = stmt.sql]
             /\ PgliteTransaction' = [PgliteTransaction EXCEPT ![f] = ctx]
             /\ sent' = [sent EXCEPT ![f] = Append(trace, Sending(stmt))]
             /\ exit' = [exit EXCEPT ![f] = [ran |-> ran, cause |-> ex]]
             /\ result' = res

\* ------------------------------------------------------------ actions ----
\* fibers are interchangeable: the fiber that makes its first call is the
\* lowest-numbered one that has made none, so that runs which differ only in
\* the numbering of the fibers are explored once
InOrder(f) ==
    \A g \in Fibers : g < f => (pc[g] # "idle" \/ result[g] # NoResult)

\* client.execute / executeRaw / executeValues: acquirer, then sdk.query
Execute(f) ==
    /\ pc[f] \in {"idle", "body"}
    /\ InOrder(f)
    /\ ~interrupted[f]
    /\ started < MaxOps
    /\ started' = started + 1
    /\ LET branch == acquirer(PgliteTransaction[f])
           trace == IF pc[f] = "idle" THEN <<>> ELSE sent[f]
       IN  /\ route' = [route EXCEPT ![f] = branch]
           /\ IF branch = "onNone" /\ gated
              THEN /\ pc' = [pc EXCEPT ![f] = "take"]
                   /\ sent' = [sent EXCEPT ![f] = trace]
              ELSE /\ pc' = [pc EXCEPT ![f] = "query"]
                   /\ sent' = [sent EXCEPT ![f] = Append(trace, Sending(INSERT))]
    /\ result' = IF pc[f] = "idle" THEN [result EXCEPT ![f] = NoResult] ELSE result
    /\ UNCHANGED <<gated, semaphore, PgliteTransaction, exit, interrupted,
                   txOpen, faults>>
    /\ UNCHANGED unitVars

\* semaphore.withPermits(1): take the permit
Take(f) ==
    /\ pc[f] = "take"
    /\ semaphore = 0
    /\ semaphore' = f
    /\ pc' = [pc EXCEPT ![f] = "held"]
    /\ UNCHANGED <<gated, PgliteTransaction, exit, sent, route, interrupted,
                   txOpen, result, started, faults>>
    /\ UNCHANGED unitVars

\* semaphore.withPermits(1)(Effect.succeed(connection)) returns: the permit
\* is released, and the statement goes to sdk.query on the connection
Release(f) ==
    /\ pc[f] = "held"
    /\ semaphore' = 0
    /\ pc' = [pc EXCEPT ![f] = "query"]
    /\ sent' = [sent EXCEPT ![f] = Append(@, Sending(INSERT))]
    /\ UNCHANGED <<gated, PgliteTransaction, exit, route, interrupted,
                   txOpen, result, started, faults>>
    /\ UNCHANGED unitVars

\* the engine answers a statement of execute
AnswerQuery(f) ==
    /\ pc[f] = "query"
    /\ \E ok \in Answers :
         LET trace == Settled(sent[f], Outcome(ok))
             cause == run("INSERT", ok)
         IN  /\ faults' = Count(ok)
             /\ IF PgliteTransaction[f] = <<>>
                THEN /\ pc' = [pc EXCEPT ![f] = "idle"]
                     /\ sent' = [sent EXCEPT ![f] = trace]
                     /\ result' = [result EXCEPT ![f] =
                           [op |-> "stmt", id |-> 0, ran |-> FALSE, body |-> {},
                            cause |-> cause]]
                     /\ UNCHANGED <<PgliteTransaction, exit>>
                ELSE \/ /\ pc' = [pc EXCEPT ![f] = "body"]
                        /\ sent' = [sent EXCEPT ![f] = trace]
                        /\ UNCHANGED <<PgliteTransaction, exit, result>>
                     \/ /\ ~ok
                        /\ Close(f, PgliteTransaction[f], TRUE, cause, trace, result)
    /\ UNCHANGED <<gated, semaphore, route, interrupted, txOpen, started>>
    /\ UNCHANGED unitVars

\* withTransaction(effect): acquireConnection sends BEGIN when there is no
\* ambient transaction, otherwise savepoint(conn, counter + 1) is sent
withTransaction(f) ==
    /\ ~gated
    /\ pc[f] \in {"idle", "body"}
    /\ InOrder(f)
    /\ ~interrupted[f]
    /\ started < MaxOps
    /\ started' = started + 1
    /\ LET ctx == PgliteTransaction[f]
           id == nextId(ctx)
       IN  /\ PgliteTransaction' = [PgliteTransaction EXCEPT ![f] = Append(ctx, id)]
           /\ IF ctx = <<>>
              THEN /\ sent' = [sent EXCEPT ![f] = <<Sending(BEGIN)>>]
                   /\ pc' = [pc EXCEPT ![f] = "BEGIN"]
                   /\ result' = [result EXCEPT ![f] = NoResult]
              ELSE /\ id <= MaxDepth
                   /\ UNCHANGED result
                   /\ sent' = [sent EXCEPT ![f] = Append(@, Sending(savepoint(id)))]
                   /\ pc' = [pc EXCEPT ![f] = "SAVEPOINT"]
    /\ exit' = [exit EXCEPT ![f] = NoExit]
    /\ UNCHANGED <<gated, semaphore, route, interrupted, txOpen, faults>>
    /\ UNCHANGED unitVars

\* acquireConnection: BEGIN is answered; the ensuring finalizer sends ROLLBACK
AnswerBegin(f) ==
    /\ pc[f] = "BEGIN"
    /\ \E ok \in Answers :
         /\ faults' = Count(ok)
         /\ txOpen' = query("BEGIN", ok, txOpen)
         /\ exit' = [exit EXCEPT ![f] = [ran |-> FALSE, cause |-> run("BEGIN", ok)]]
         /\ sent' = [sent EXCEPT ![f] =
                        Append(Settled(@, Outcome(ok)), Sending(ROLLBACK))]
    /\ pc' = [pc EXCEPT ![f] = "acqROLLBACK"]
    /\ UNCHANGED <<gated, semaphore, PgliteTransaction, route, interrupted,
                   result, started>>
    /\ UNCHANGED unitVars

\* acquireConnection: the finalizer's ROLLBACK is answered; the body starts
\* when BEGIN and the finalizer both succeeded
AnswerAcquire(f) ==
    /\ pc[f] = "acqROLLBACK"
    /\ \E ok \in Answers :
         LET cause == ensuring(exit[f].cause, orDie(run("ROLLBACK", ok)))
         IN  /\ faults' = Count(ok)
             /\ txOpen' = query("ROLLBACK", ok, txOpen)
             /\ sent' = [sent EXCEPT ![f] = Settled(@, Outcome(ok))]
             /\ exit' = [exit EXCEPT ![f] = NoExit]
             /\ IF cause = {}
                THEN /\ pc' = [pc EXCEPT ![f] = "body"]
                     /\ UNCHANGED <<PgliteTransaction, result>>
                ELSE /\ pc' = [pc EXCEPT ![f] = "idle"]
                     /\ PgliteTransaction' = [PgliteTransaction EXCEPT ![f] = <<>>]
                     /\ result' = [result EXCEPT ![f] =
                           [op |-> "tx", id |-> 0, ran |-> FALSE, body |-> {},
                            cause |-> cause]]
    /\ UNCHANGED <<gated, semaphore, route, interrupted, started>>
    /\ UNCHANGED unitVars

\* savepoint(conn, id) is answered: the nested body starts, or the failure
\* is the exit the frame is closed with
AnswerSavepoint(f) ==
    /\ pc[f] = "SAVEPOINT"
    /\ \E ok \in Answers :
         LET trace == Settled(sent[f], Outcome(ok))
         IN  /\ faults' = Count(ok)
             /\ IF ok
                THEN /\ pc' = [pc EXCEPT ![f] = "body"]
                     /\ sent' = [sent EXCEPT ![f] = trace]
                     /\ UNCHANGED <<PgliteTransaction, exit, result>>
                ELSE Close(f, PgliteTransaction[f], FALSE, run("SAVEPOINT", ok),
                           trace, result)
    /\ UNCHANGED <<gated, semaphore, route, interrupted, txOpen, started>>
    /\ UNCHANGED unitVars

\* restore(effect) ends: the body returned, failed with a typed error or died
BodyEnd(f) ==
    /\ pc[f] = "body"
    /\ ~interrupted[f]
    /\ \E ex \in {{}} \cup {{e} : e \in BodyErrors} :
         Close(f, PgliteTransaction[f], TRUE, ex, sent[f], result)
    /\ UNCHANGED <<gated, semaphore, route, interrupted, txOpen, started, faults>>
    /\ UNCHANGED unitVars

\* commit / rollback / rollbackSavepoint is answered: Scope.close, then the
\* exit goes to the caller; a caller that is itself a transaction body either
\* handles a failure or fails with it
AnswerClosing(f) ==
    /\ pc[f] \in {"COMMIT", "ROLLBACK", "ROLLBACK_TO"}
    /\ \E ok \in Answers :
         LET ctx == PgliteTransaction[f]
             id == Last(ctx)
             trace == Settled(sent[f], Outcome(ok))
             cause == zipRight(orDie(run(pc[f], ok)), exit[f].cause)
             res == [result EXCEPT ![f] =
                        [op |-> "tx", id |-> id, ran |-> exit[f].ran,
                         body |-> IF exit[f].ran THEN exit[f].cause ELSE {},
                         cause |-> cause]]
         IN  /\ faults' = Count(ok)
             /\ txOpen' = query(pc[f], ok, txOpen)
             /\ IF id = 0
                THEN /\ pc' = [pc EXCEPT ![f] = "idle"]
                     /\ PgliteTransaction' = [PgliteTransaction EXCEPT ![f] = <<>>]
                     /\ sent' = [sent EXCEPT ![f] = trace]
                     /\ exit' = [exit EXCEPT ![f] = NoExit]
                     /\ result' = res
                ELSE \/ /\ Interrupt \notin cause
                        /\ pc' = [pc EXCEPT ![f] = "body"]
                        /\ PgliteTransaction' = [PgliteTransaction EXCEPT ![f] = Front(ctx)]
                        /\ sent' = [sent EXCEPT ![f] = trace]
                        /\ exit' = [exit EXCEPT ![f] = NoExit]
                        /\ result' = res
                     \/ Close(f, Front(ctx), TRUE, cause, trace, res)
    /\ UNCHANGED <<gated, semaphore, route, interrupted, started>>
    /\ UNCHANGED unitVars

\* Fiber.interrupt from outside
InterruptFiber(f) ==
    /\ ~interrupted[f]
    /\ pc[f] \notin {"idle", "dead"}
    /\ faults < MaxFaults
    /\ faults' = faults + 1
    /\ interrupted' = [interrupted EXCEPT ![f] = TRUE]
    /\ UNCHANGED <<gated, semaphore, pc, PgliteTransaction, exit, sent, route,
                   txOpen, result, started>>
    /\ UNCHANGED unitVars

\* the interrupt reaches a fiber outside withTransaction: it ends, and the
\* promise of a query it was awaiting is abandoned
CancelBare(f) ==
    /\ interrupted[f]
    /\ PgliteTransaction[f] = <<>>
    /\ pc[f] \in {"idle", "take", "held", "query"}
    /\ pc' = [pc EXCEPT ![f] = "dead"]
    /\ semaphore' = IF pc[f] = "held" THEN 0 ELSE semaphore
    /\ IF pc[f] = "query"
       THEN /\ sent' = [sent EXCEPT ![f] = Settled(@, "abandoned")]
            /\ result' = [result EXCEPT ![f] =
                  [op |-> "stmt", id |-> 0, ran |-> FALSE, body |-> {},
                   cause |-> {Interrupt}]]
       ELSE UNCHANGED <<sent, result>>
    /\ UNCHANGED <<gated, PgliteTransaction, exit, route, interrupted, txOpen,
                   started, faults>>
    /\ UNCHANGED unitVars

\* the interrupt reaches restore(effect): the body exits with Interrupt and
\* the frame is closed in the uninterruptible region
CancelBody(f) ==
    /\ interrupted[f]
    /\ PgliteTransaction[f] # <<>>
    /\ pc[f] \in {"body", "query"}
    /\ Close(f, PgliteTransaction[f], TRUE, {Interrupt},
             IF pc[f] = "query" THEN Settled(sent[f], "abandoned") ELSE sent[f],
             result)
    /\ UNCHANGED <<gated, semaphore, route, interrupted, txOpen, started, faults>>
    /\ UNCHANGED unitVars

Next ==
    \E f \in Fibers :
        \/ Execute(f)
        \/ Take(f)
        \/ Release(f)
        \/ AnswerQuery(f)
        \/ withTransaction(f)
        \/ AnswerBegin(f)
        \/ AnswerAcquire(f)
        \/ AnswerSavepoint(f)
        \/ BodyEnd(f)
        \/ AnswerClosing(f)
        \/ InterruptFiber(f)
        \/ CancelBare(f)
        \/ CancelBody(f)

Spec == Init /\ [][Next]_vars

\* ------------------------------------------------------- CacheService ----
\* the time to live of an item, in milliseconds
TTL == 5 * 60 * 1000

\* the clock moves by a millisecond or by just under the time to live
Steps == {1, TTL - 1}

\* Option.some(value), and the constructor Option.none that get returns
\* without calling it
Option_some(value) == [_tag |-> "Some", value |-> value]
Option_none == [_tag |-> "Function", value |-> "Option.none"]

\* get(key): the item of the Map, if there is one younger than TTL
get(cache, key, now) ==
    LET item == cache[key]
    IN  IF item # NoItem /\ now - item.timestamp < TTL
        THEN Option_some(item.data)
        ELSE Option_none

\* set(key, data): cache.set(key, { data, timestamp: Date.now() })
set(cache, key, data, now) ==
    [cache EXCEPT ![key] = [data |-> data, timestamp |-> now]]

\* clear(): Ref.set(cacheRef, new Map())
clear == Map

Get(key) ==
    /\ got' = [key |-> key, returned |-> get(cacheRef, key, clock.now),
               before |-> cacheRef]
    /\ UNCHANGED <<cacheRef, clock, txVars, compiled, client, debounce, embedding>>

Set(key, data) ==
    /\ cacheRef' = set(cacheRef, key, data, clock.now)
    /\ got' = NoCall
    /\ UNCHANGED <<clock, txVars, compiled, client, debounce, embedding>>

Clear ==
    /\ cacheRef' = clear
    /\ got' = NoCall
    /\ UNCHANGED <<clock, txVars, compiled, client, debounce, embedding>>

\* Date.now() advances between two operations
Tick(ms) ==
    /\ clock.ticks < MaxTicks
    /\ clock' = [now |-> clock.now + ms, ticks |-> clock.ticks + 1]
    /\ got' = NoCall
    /\ UNCHANGED <<cacheRef, txVars, compiled, client, debounce, embedding>>

InitCache ==
    /\ gated = FALSE
    /\ Idle
    /\ compiled = NoStatement
    /\ client = NoClient
    /\ CacheService
    /\ debounce = NoDebounce
    /\ embedding = NoEmbedding

NextCache ==
    \/ \E key \in Keys : Get(key)
    \/ \E key \in Keys, data \in Data : Set(key, data)
    \/ Clear
    \/ \E ms \in Steps : Tick(ms)

SpecCache == InitCache /\ [][NextCache]_vars

\* ------------------------------------------- connection and its scope ----
\* the statements handed to the connection (params: [])
Statements == {"SELECT * FROM simple_test", "SELECT * FROM missing"}

\* what the engine rejects a statement with
Causes == {"relation does not exist", "connection closed"}

\* the rows of simple_test as sdk.query returns them without a rowMode
\* option: one object per row, its fields in column order
Rows ==
    {[kind |-> "object",
      fields |-> <<[name |-> "id", value |-> "1"],
                   [name |-> "entity_id", value |-> "test1"]>>],
     [kind |-> "object",
      fields |-> <<[name |-> "id", value |-> "2"],
                   [name |-> "entity_id", value |-> "test2"]>>]}

\* the answers of sdk.query: Results with up to MaxRows rows, or a rejection
Resolved == {[ok |-> TRUE, rows |-> r, cause |-> "none"] :
                r \in UNION {[1..n -> Rows] : n \in 0..MaxRows}}
Rejected == {[ok |-> FALSE, rows |-> <<>>, cause |-> c] : c \in Causes}

\* Exit.succeed / Exit.fail
Success(value) == [_tag |-> "Success", value |-> value]
Failure(error) == [_tag |-> "Failure", error |-> error]

\* new SqlError.SqlError({ cause, message: "Failed to execute statement" })
SqlError(cause) ==
    [_tag |-> "SqlError", cause |-> cause, message |-> "Failed to execute statement"]

\* Effect.tryPromise({ try: () => this.sdk.query(sql, params), catch })
tryPromise(sql, params, answer) ==
    IF answer.ok
    THEN Success([rows |-> answer.rows, affectedRows |-> 0])
    ELSE Failure(SqlError(answer.cause))

\* PGliteConnectionImpl.run: Effect.map(..., (results) => results.rows)
runRows(sql, params, answer) ==
    LET self == tryPromise(sql, params, answer)
    IN  IF self._tag = "Success" THEN Success(self.value.rows) ELSE self

runRaw(sql, params, answer) == tryPromise(sql, params, answer)

\* options.transformResultNames, e.g. String.snakeToCamel
transformResultNames(name) == IF name = "entity_id" THEN "entityId" ELSE name

\* Statement.defaultTransforms(options.transformResultNames).array
transformRows(rows) ==
    [i \in 1..Len(rows) |->
        [kind |-> "object",
         fields |-> [j \in 1..Len(rows[i].fields) |->
                        [name |-> transformResultNames(rows[i].fields[j].name),
                         value |-> rows[i].fields[j].value]]]]

\* (mutant) the result names are transformed whether configured or not
executeTransformed(sql, params, answer, transform) ==
    LET self == runRows(sql, params, answer)
    IN  IF self._tag = "Success" THEN Success(transformRows(self.value)) ELSE self

\* execute: Effect.map(this.run(sql, params), transformRows) when
\* transformRows is defined, this.run(sql, params) otherwise
execute(sql, params, answer, transform) ==
    LET self == runRows(sql, params, answer)
    IN  IF transform /\ self._tag = "Success"
        THEN Success(transformRows(self.value))
        ELSE self

executeRaw(sql, params, answer) == runRaw(sql, params, answer)

\* Array.from(row): the items of an array; a plain object is neither iterable
\* nor array-like, so it gives the empty array
Array_from(row) == IF row.kind = "array" THEN row.items ELSE <<>>

rows_map(rows) == [i \in 1..Len(rows) |-> Array_from(rows[i])]

executeValues(sql, params, answer) ==
    LET self == runRows(sql, params, answer)
    IN  IF self._tag = "Success" THEN Success(rows_map(self.value)) ELSE self

executeUnprepared(sql, params, answer, transform) ==
    execute(sql, params, answer, transform)

Methods == {"run", "runRaw", "execute", "executeRaw", "executeValues",
            "executeUnprepared"}

\* the exit of method called with sql and [] when the engine gives answer
call(method, sql, answer, transform) ==
    CASE method = "run" -> runRows(sql, <<>>, answer)
      [] method = "runRaw" -> runRaw(sql, <<>>, answer)
      [] method = "execute" -> execute(sql, <<>>, answer, transform)
      [] method = "executeRaw" -> executeRaw(sql, <<>>, answer)
      [] method = "executeValues" -> executeValues(sql, <<>>, answer)
      [] method = "executeUnprepared" -> executeUnprepared(sql, <<>>, answer, transform)

NoQuery == [method |-> "none"]

\* (mutant) the created engine is wrapped without a release
connectionLeaked(liveClient) ==
    IF liveClient
    THEN [sdk |-> "liveClient", finalizers |-> <<>>]
    ELSE [sdk |-> "created", finalizers |-> <<>>]

connectionOwned(liveClient) ==
    IF liveClient
    THEN [sdk |-> "liveClient", finalizers |-> <<"sdk.close()">>]
    ELSE [sdk |-> "created", finalizers |-> <<"sdk.close()">>]

\* make: the connection wraps options.liveClient, or an engine it creates
\* under Effect.acquireRelease, whose release calls sdk.close()
connection(liveClient) ==
    IF liveClient
    THEN [sdk |-> "liveClient", finalizers |-> <<>>]
    ELSE [sdk |-> "created", finalizers |-> <<"sdk.close()">>]

\* make(options) in a scope that is open
Make ==
    /\ client.phase = "options"
    /\ \/ LET conn == connection(client.liveClient)
          IN  client' = [client EXCEPT !.phase = "made", !.sdk = conn.sdk,
                                       !.finalizers = conn.finalizers]
       \/ /\ ~client.liveClient
          /\ client' = [client EXCEPT !.phase = "failed"]
    /\ UNCHANGED <<txVars, compiled, cacheRef, clock, got, debounce, embedding>>

\* a statement goes through one of the connection's methods and is answered
Query(method, sql, answer) ==
    /\ client.phase = "made"
    /\ client' = [client EXCEPT !.last =
                     [method |-> method, sql |-> sql, answer |-> answer,
                      exit |-> call(method, sql, answer, client.transformResultNames)]]
    /\ UNCHANGED <<txVars, compiled, cacheRef, clock, got, debounce, embedding>>

\* Scope.close(scope, exit): every finalizer runs, once
CloseScope(ex) ==
    /\ client.phase \in {"options", "made", "failed"}
    /\ ex = "success" => client.phase # "failed"
    /\ client' = [client EXCEPT !.phase = "closed", !.exit = ex,
                                !.closed = @ + Len(client.finalizers),
                                !.finalizers = <<>>]
    /\ UNCHANGED <<txVars, compiled, cacheRef, clock, got, debounce, embedding>>

InitClient ==
    /\ gated = FALSE
    /\ Idle
    /\ compiled = NoStatement
    /\ CacheService
    /\ debounce = NoDebounce
    /\ embedding = NoEmbedding
    /\ \E liveClient \in BOOLEAN, transform \in BOOLEAN :
         client = [phase |-> "options", liveClient |-> liveClient,
                   transformResultNames |-> transform, sdk |-> "none",
                   finalizers |-> <<>>, closed |-> 0, exit |-> "open",
                   last |-> NoQuery]

NextClient ==
    \/ Make
    \/ \E method \in Methods, sql \in Statements, answer \in Resolved \cup Rejected :
         Query(method, sql, answer)
    \/ \E ex \in {"success", "failure", "interrupt"} : CloseScope(ex)

SpecClient == InitClient /\ [][NextClient]_vars

\* ----------------------------------------------------------- compiler ----
\* A string is the sequence of its characters.  The characters an identifier
\* is made of: a lower-case letter, an upper-case letter, the double quote and
\* the dot.
Chars == {"a", "B", "\"", "."}
Identifiers == UNION {[1..n -> Chars] : n \in 0..MaxName}

\* String.prototype.replace(new RegExp(ch, "g"), by)
RECURSIVE replace(_, _, _)
replace(str, ch, by) ==
    IF str = <<>>
    THEN <<>>
    ELSE (IF Head(str) = ch THEN by ELSE <<Head(str)>>) \o replace(Tail(str), ch, by)

\* options.transformQueryNames, e.g. String.camelToSnake
transform(str) == replace(str, "B", <<"_", "b">>)

\* (mutant) the name is wrapped and its quotes are left single
escapeSingle(str) == <<"\"">> \o replace(str, ".", <<"\"", ".", "\"">>) \o <<"\"">>

\* Statement.defaultEscape("\""): every quote is doubled, every dot closes
\* one quoted part and opens the next, and the whole is wrapped in quotes
escape(str) ==
    <<"\"">> \o replace(replace(str, "\"", <<"\"", "\"">>), ".", <<"\"", ".", "\"">>)
             \o <<"\"">>

\* onIdentifier of makeCompiler(transform)
onIdentifier(value, withoutTransform, hasTransform) ==
    IF ~hasTransform \/ withoutTransform
    THEN escape(value)
    ELSE escape(transform(value))

\* onIdentifier of the compiler of part_010:413-429, which takes no transform
onIdentifier418(value) ==
    <<"\"">> \o replace(value, "\"", <<"\"", "\"">>) \o <<"\"">>

\* the compiler calls under study, before they are made
IdentifierCalls ==
    {[op |-> "onIdentifier", revision |-> "PGliteClient.ts", value |-> v,
      withoutTransform |-> w, hasTransform |-> t, out |-> <<>>, done |-> FALSE] :
        v \in Identifiers, w \in BOOLEAN, t \in BOOLEAN}
    \cup
    {[op |-> "onIdentifier", revision |-> "part_010:418", value |-> v,
      withoutTransform |-> w, hasTransform |-> FALSE, out |-> <<>>, done |-> FALSE] :
        v \in Identifiers, w \in BOOLEAN}

\* compiler.onIdentifier(value, withoutTransform)
CompileIdentifier ==
    /\ compiled.op = "onIdentifier"
    /\ ~compiled.done
    /\ compiled' = [compiled EXCEPT
           !.done = TRUE,
           !.out = IF compiled.revision = "PGliteClient.ts"
                   THEN onIdentifier(compiled.value, compiled.withoutTransform,
                                     compiled.hasTransform)
                   ELSE onIdentifier418(compiled.value)]
    /\ UNCHANGED <<txVars, client, cacheRef, clock, got, debounce, embedding>>

\* the values a row cell holds: a JavaScript value is its typeof and its
\* JSON text
Values ==
    {[typeof |-> "number", text |-> "1"],
     [typeof |-> "boolean", text |-> "true"],
     [typeof |-> "string", text |-> "x"],
     [typeof |-> "object", text |-> "null"],
     [typeof |-> "object", text |-> "{}"]}

\* the column names of a bulk helper's records
id == <<"i", "d">>
ColumnLists == {<<>>, <<id>>, <<id, <<"a">>>>, <<<<"a">>, id>>}

\* the RETURNING fragment of a helper: absent, or its text and parameters
NoReturning == [given |-> FALSE, sql |-> <<>>, params |-> <<>>]
Returnings == {NoReturning, [given |-> TRUE, sql |-> <<"*">>, params |-> <<>>]}

\* placeholder: (index, _value) => `$${index}`
placeholder(index) == <<"$", index>>

\* the placeholders argument of onInsert: one group per row, one placeholder
\* per column, numbered in the order of the groups
placeholders(rows, cols) ==
    [g \in 1..rows |-> [c \in 1..cols |-> placeholder((g - 1) * cols + c)]]

\* Array.prototype.join
RECURSIVE join(_, _)
join(strs, sep) ==
    IF strs = <<>> THEN <<>>
    ELSE IF Len(strs) = 1 THEN strs[1]
    ELSE strs[1] \o sep \o join(Tail(strs), sep)

\* the columns argument of onRecordUpdate: "(" + escaped names joined by ","
\* + ")"
generateColumns(keys) ==
    <<"(">> \o join([i \in 1..Len(keys) |-> escape(keys[i])], <<",">>) \o <<")">>

\* String.prototype.split(sep) for a separator of one character
RECURSIVE split(_, _, _)
split(str, sep, acc) ==
    IF str = <<>> THEN <<acc>>
    ELSE IF Head(str) = sep THEN <<acc>> \o split(Tail(str), sep, <<>>)
    ELSE split(Tail(str), sep, Append(acc, Head(str)))

\* (mutant) the cells are read column by column
flatByColumn(values) ==
    IF values = <<>> THEN <<>>
    ELSE LET n == Len(values[1])
         IN  [k \in 1..(Len(values) * n) |->
                 values[((k - 1) % Len(values)) + 1][((k - 1) \div Len(values)) + 1]]

\* values.flat(): the rows one after the other
RECURSIVE flat(_)
flat(values) == IF values = <<>> THEN <<>> ELSE values[1] \o flat(Tail(values))

JSON_stringify(a) == [typeof |-> "string", text |-> a.text]

\* (a) => typeof a === "boolean" || "number" || "string" ? a : JSON.stringify(a)
primitive(a) ==
    IF a.typeof \in {"boolean", "number", "string"} THEN a ELSE JSON_stringify(a)

vals(values) == LET f == flat(values) IN [k \in 1..Len(f) |-> primitive(f[k])]

\* onInsert: `(${columns.join(", ")}) VALUES ${placeholders} RETURNING ...`
onInsert(columns, places, values, returning) ==
    [error |-> FALSE,
     sql |-> [columns |-> join(columns, <<",", " ">>),
              values |-> places,
              returning |-> IF returning.given THEN returning.sql ELSE <<>>],
     params |-> IF returning.given
                THEN vals(values) \o returning.params
                ELSE vals(values)]

\* Array.prototype.indexOf, counted from 0
indexOf(strs, str) == (CHOOSE i \in 1..Len(strs) : strs[i] = str /\
                          \A j \in 1..(i - 1) : strs[j] # str) - 1

\* onRecordUpdate: one `col = CASE WHEN id = $i THEN $j ... ELSE col END`
\* for each column name other than "id", then `WHERE id IN ($i, ...)`
onRecordUpdate(columns, values, returning) ==
    LET columnNames == split(SubSeq(columns, 2, Len(columns) - 1), ",", <<>>)
        n == Len(columnNames)
        kept == SelectSeq(columnNames, LAMBDA col : col # id)
        cases(col) ==
            [r \in 1..Len(values) |->
                [when |-> placeholder((r - 1) * n + 1),
                 then |-> placeholder((r - 1) * n + indexOf(columnNames, col) + 1)]]
    IN  [error |-> FALSE,
         sql |-> [set |-> [i \in 1..Len(kept) |->
                              [col |-> kept[i], cases |-> cases(kept[i])]],
                  where |-> [r \in 1..Len(values) |-> placeholder((r - 1) * n + 1)],
                  returning |-> IF returning.given THEN returning.sql ELSE <<>>],
         params |-> IF returning.given
                    THEN vals(values) \o returning.params
                    ELSE vals(values)]

\* onRecordUpdateSingle: `${a}=$${i + 1}` for each column, joined by ", ",
\* then RETURNING; the values are the cells of the one record
onRecordUpdateSingle(columns, values, returning) ==
    [error |-> FALSE,
     sql |-> [set |-> [i \in 1..Len(columns) |->
                          [col |-> columns[i], place |-> placeholder(i)]],
              returning |-> IF returning.given THEN returning.sql ELSE <<>>],
     params |-> IF returning.given
                THEN [k \in 1..Len(values) |-> primitive(values[k])] \o returning.params
                ELSE [k \in 1..Len(values) |-> primitive(values[k])]]

\* sql.insert(records), sql.updateValues(records, alias) or sql.update(record)
\* with the columns keys and the rows values, before it is compiled
HelperCall(op, keys, values, returning) ==
    [op |-> op, keys |-> keys, values |-> values, returning |-> returning,
     out |-> <<>>, done |-> FALSE]

\* the compiler reaches an insert helper: onInsert gets the escaped column
\* names, the placeholders and the cells of the rows
CompileInsert ==
    /\ compiled.op = "onInsert"
    /\ ~compiled.done
    /\ compiled' = [compiled EXCEPT
           !.done = TRUE,
           !.out = onInsert([i \in 1..Len(compiled.keys) |-> escape(compiled.keys[i])],
                            placeholders(Len(compiled.values), Len(compiled.keys)),
                            compiled.values, compiled.returning)]
    /\ UNCHANGED <<txVars, client, cacheRef, clock, got, debounce, embedding>>

\* the compiler reaches a bulk update helper
CompileRecordUpdate ==
    /\ compiled.op = "onRecordUpdate"
    /\ ~compiled.done
    /\ compiled' = [compiled EXCEPT
           !.done = TRUE,
           !.out = onRecordUpdate(generateColumns(compiled.keys), compiled.values,
                                  compiled.returning)]
    /\ UNCHANGED <<txVars, client, cacheRef, clock, got, debounce, embedding>>

\* the compiler reaches a single-record update helper: onRecordUpdateSingle
\* gets the escaped column names and the cells of the record
CompileRecordUpdateSingle ==
    /\ compiled.op = "onRecordUpdateSingle"
    /\ ~compiled.done
    /\ compiled' = [compiled EXCEPT
           !.done = TRUE,
           !.out = onRecordUpdateSingle(
                       [i \in 1..Len(compiled.keys) |-> escape(compiled.keys[i])],
                       compiled.values[1], compiled.returning)]
    /\ UNCHANGED <<txVars, client, cacheRef, clock, got, debounce, embedding>>

InitCompiler ==
    /\ gated = FALSE
    /\ Idle
    /\ client = NoClient
    /\ CacheService
    /\ debounce = NoDebounce
    /\ embedding = NoEmbedding
    /\ \/ compiled \in IdentifierCalls
       \/ \E op \in {"onInsert", "onRecordUpdate"}, keys \in ColumnLists,
             returning \in Returnings, r \in 1..MaxRows :
             \E values \in [1..r -> [1..Len(keys) -> Values]] :
                 compiled = HelperCall(op, keys, values, returning)
       \/ \E keys \in ColumnLists, returning \in Returnings :
             \E values \in [1..1 -> [1..Len(keys) -> Values]] :
                 compiled = HelperCall("onRecordUpdateSingle", keys, values, returning)

NextCompiler ==
    \/ CompileIdentifier
    \/ CompileInsert
    \/ CompileRecordUpdate
    \/ CompileRecordUpdateSingle

SpecCompiler == InitCompiler /\ [][NextCompiler]_vars


\* ------------------------------------------------- QueryDebounceService ----
\* The callers of debounceQuery are fibers of one runtime: each `yield*` of
\* the generator is a step, and the runtime may switch fibers between any two.

Callers == 1..NumCallers

\* what a query can succeed with
Results == {[typeof |-> "number", text |-> "1"], [typeof |-> "string", text |-> "x"]}

\* JSON.stringify(result): a string that holds the JSON text of the result
stringify(value) == [typeof |-> "string", json |-> value]

\* a caller that has not called debounceQuery
NoCaller == [pc |-> "idle", key |-> "none", existing |-> 0, result |-> "none",
             exit |-> "none", returned |-> "none"]

\* the caller c of debounceQuery; pendingQueries holds for a key the queue of
\* the caller that made it with Queue.unbounded, 0 when it has no entry
caller(c) == debounce.callers[c]

\* debounceQuery(key, query) is called
debounceQuery(c, key) ==
    /\ debounce # NoDebounce
    /\ caller(c).pc = "idle"
    /\ debounce' = [debounce EXCEPT !.callers[c].pc = "Ref.get",
                                    !.callers[c].key = key]
    /\ UNCHANGED <<txVars, compiled, client, cacheRef, clock, got, embedding>>

\* const queries = yield* Ref.get(pendingQueries); queries.get(key)
RefGet(c) ==
    /\ debounce # NoDebounce
    /\ caller(c).pc = "Ref.get"
    /\ LET existing == debounce.pendingQueries[caller(c).key]
       IN  debounce' = [debounce EXCEPT
               !.callers[c].existing = existing,
               !.callers[c].pc = IF existing # 0 THEN "Queue.take"
                                 ELSE "Queue.unbounded"]
    /\ UNCHANGED <<txVars, compiled, client, cacheRef, clock, got, embedding>>

\* return yield* Queue.take(existing): suspends while the queue is empty
QueueTake(c) ==
    /\ debounce # NoDebounce
    /\ caller(c).pc = "Queue.take"
    /\ debounce.queues[caller(c).existing] # <<>>
    /\ debounce' = [debounce EXCEPT
           !.queues[caller(c).existing] = Tail(@),
           !.callers[c].pc = "done",
           !.callers[c].exit = "Success",
           !.callers[c].returned = Head(debounce.queues[caller(c).existing])]
    /\ UNCHANGED <<txVars, compiled, client, cacheRef, clock, got, embedding>>

\* const queue = yield* Queue.unbounded<string>()
QueueUnbounded(c) ==
    /\ debounce # NoDebounce
    /\ caller(c).pc = "Queue.unbounded"
    /\ debounce' = [debounce EXCEPT !.queues[c] = <<>>,
                                    !.callers[c].pc = "Ref.update"]
    /\ UNCHANGED <<txVars, compiled, client, cacheRef, clock, got, embedding>>

\* yield* Ref.update(pendingQueries, (map) => map.set(key, queue))
RefUpdateSet(c) ==
    /\ debounce # NoDebounce
    /\ caller(c).pc = "Ref.update"
    /\ debounce' = [debounce EXCEPT !.pendingQueries[caller(c).key] = c,
                                    !.callers[c].pc = "query"]
    /\ UNCHANGED <<txVars, compiled, client, cacheRef, clock, got, embedding>>

\* const result = yield* query, the query succeeding
QuerySucceeds(c, value) ==
    /\ debounce # NoDebounce
    /\ caller(c).pc = "query"
    /\ debounce' = [debounce EXCEPT !.callers[c].result = value,
                                    !.callers[c].pc = "Effect.sleep"]
    /\ UNCHANGED <<txVars, compiled, client, cacheRef, clock, got, embedding>>

\* const result = yield* query, the query dying: the generator ends there
QueryDies(c) ==
    /\ debounce # NoDebounce
    /\ caller(c).pc = "query"
    /\ debounce' = [debounce EXCEPT !.callers[c].pc = "done",
                                    !.callers[c].exit = "Die"]
    /\ UNCHANGED <<txVars, compiled, client, cacheRef, clock, got, embedding>>

\* the caller's fiber is interrupted where it is suspended: the generator ends
\* there
InterruptCaller(c) ==
    /\ debounce # NoDebounce
    /\ caller(c).pc \in {"query", "Effect.sleep", "Queue.take"}
    /\ debounce' = [debounce EXCEPT !.callers[c].pc = "done",
                                    !.callers[c].exit = "Interrupt"]
    /\ UNCHANGED <<txVars, compiled, client, cacheRef, clock, got, embedding>>

\* yield* Effect.sleep(delay)
EffectSleep(c) ==
    /\ debounce # NoDebounce
    /\ caller(c).pc = "Effect.sleep"
    /\ debounce' = [debounce EXCEPT !.callers[c].pc = "Queue.offer"]
    /\ UNCHANGED <<txVars, compiled, client, cacheRef, clock, got, embedding>>

\* yield* Queue.offer(queue, JSON.stringify(result))
QueueOffer(c) ==
    /\ debounce # NoDebounce
    /\ caller(c).pc = "Queue.offer"
    /\ debounce' = [debounce EXCEPT
           !.queues[c] = Append(@, stringify(caller(c).result)),
           !.callers[c].pc = "Ref.update.delete"]
    /\ UNCHANGED <<txVars, compiled, client, cacheRef, clock, got, embedding>>

\* yield* Ref.update(pendingQueries, (map) => { map.delete(key); return map })
\* and return result
RefUpdateDelete(c) ==
    /\ debounce # NoDebounce
    /\ caller(c).pc = "Ref.update.delete"
    /\ debounce' = [debounce EXCEPT !.pendingQueries[caller(c).key] = 0,
                                    !.callers[c].pc = "done",
                                    !.callers[c].exit = "Success",
                                    !.callers[c].returned = caller(c).result]
    /\ UNCHANGED <<txVars, compiled, client, cacheRef, clock, got, embedding>>

\* Ref.make(new Map()): the service is built and nobody has called it
InitDebounce ==
    /\ gated = FALSE
    /\ Idle
    /\ compiled = NoStatement
    /\ client = NoClient
    /\ CacheService
    /\ debounce = [service |-> "made",
                   pendingQueries |-> [k \in Keys |-> 0],
                   queues |-> [c \in Callers |-> <<>>],
                   callers |-> [c \in Callers |-> NoCaller]]
    /\ embedding = NoEmbedding

NextDebounce ==
    \/ \E c \in Callers, key \in Keys : debounceQuery(c, key)
    \/ \E c \in Callers : RefGet(c)
    \/ \E c \in Callers : QueueTake(c)
    \/ \E c \in Callers : QueueUnbounded(c)
    \/ \E c \in Callers : RefUpdateSet(c)
    \/ \E c \in Callers, value \in Results : QuerySucceeds(c, value)
    \/ \E c \in Callers : QueryDies(c)
    \/ \E c \in Callers : InterruptCaller(c)
    \/ \E c \in Callers : EffectSleep(c)
    \/ \E c \in Callers : QueueOffer(c)
    \/ \E c \in Callers : RefUpdateDelete(c)

SpecDebounce == InitDebounce /\ [][NextDebounce]_vars

\* the runtime runs every fiber that can go on, a query that does not die
\* ends, and a sleep ends
SpecDebounceFair ==
    /\ SpecDebounce
    /\ \A c \in Callers :
         /\ WF_vars(RefGet(c))
         /\ WF_vars(QueueTake(c))
         /\ WF_vars(QueueUnbounded(c))
         /\ WF_vars(RefUpdateSet(c))
         /\ WF_vars(\E value \in Results : QuerySucceeds(c, value))
         /\ WF_vars(EffectSleep(c))
         /\ WF_vars(QueueOffer(c))
         /\ WF_vars(RefUpdateDelete(c))


\* ------------------------------------- PGLiteQAService: embedding calls ----
\* syncDataToVectorStore() and generateBatchEmbeddings(texts): embedMany under
\* Effect.retry({ times: 2, schedule: Schedule.fixed("100 millis") }).

times == 2

retryAgain(failures) == failures <= times + 1

\* Effect.retry({ times }): after the failures-th failure of the effect, it is
\* run again while failures <= times
retry(failures) == failures <= times

\* a call of one of the two functions, about to start; texts is
\* allTexts.length or texts.length, calls the outcomes of the embedMany calls
\* in order, stored the elements handed to the vector store and accepted
EmbeddingCall(fn, users, orders, products, texts) ==
    [fn |-> fn, users |-> users, orders |-> orders, products |-> products,
     texts |-> texts, pc |-> "start", calls |-> <<>>, stored |-> 0,
     exit |-> "none"]

\* syncDataToVectorStore: Effect.all of the three fetches; one that fails
\* ends the call with DatabaseError
FetchAll(ok) ==
    /\ embedding.fn = "syncDataToVectorStore"
    /\ embedding.pc = "start"
    /\ embedding' = IF ok
                    THEN [embedding EXCEPT !.pc = "embedMany"]
                    ELSE [embedding EXCEPT !.pc = "done", !.exit = "DatabaseError"]
    /\ UNCHANGED <<txVars, compiled, client, cacheRef, clock, got, debounce>>

\* generateBatchEmbeddings: if (texts.length === 0) return []
CheckTexts ==
    /\ embedding.fn = "generateBatchEmbeddings"
    /\ embedding.pc = "start"
    /\ embedding' = IF embedding.texts = 0
                    THEN [embedding EXCEPT !.pc = "done", !.exit = "Success"]
                    ELSE [embedding EXCEPT !.pc = "embedMany"]
    /\ UNCHANGED <<txVars, compiled, client, cacheRef, clock, got, debounce>>

\* embeddingModel.embedMany(texts) answers: it succeeds, fails or dies. A
\* failure is retried per Effect.retry, and mapped to EmbeddingError when it
\* is not; a success goes on to the store or returns the embeddings
EmbedMany(answer) ==
    /\ embedding.fn # "none"
    /\ embedding.pc = "embedMany"
    /\ LET called == [embedding EXCEPT !.calls = Append(@, answer)]
           failed == Cardinality({i \in 1..Len(called.calls) : called.calls[i] = "fail"})
       IN  embedding' =
             IF answer = "ok"
             THEN IF embedding.fn = "syncDataToVectorStore"
                  THEN [called EXCEPT !.pc = "storeEmbeddingBatch"]
                  ELSE [called EXCEPT !.pc = "done", !.exit = "Success"]
             ELSE IF answer = "die"
             THEN [called EXCEPT !.pc = "done", !.exit = "Die"]
             ELSE IF retry(failed)
             THEN [called EXCEPT !.pc = "Schedule.fixed"]
             ELSE [called EXCEPT !.pc = "done", !.exit = "EmbeddingError"]
    /\ UNCHANGED <<txVars, compiled, client, cacheRef, clock, got, debounce>>

\* Schedule.fixed("100 millis"): the delay before the next attempt is over
ScheduleFixed ==
    /\ embedding.fn # "none"
    /\ embedding.pc = "Schedule.fixed"
    /\ embedding' = [embedding EXCEPT !.pc = "embedMany"]
    /\ UNCHANGED <<txVars, compiled, client, cacheRef, clock, got, debounce>>

\* vectorOps.storeEmbeddingBatch(batchItems): one item for each text; a
\* failure is mapped to VectorStoreError
StoreEmbeddingBatch(ok) ==
    /\ embedding.fn = "syncDataToVectorStore"
    /\ embedding.pc = "storeEmbeddingBatch"
    /\ embedding' = IF ok
                    THEN [embedding EXCEPT !.pc = "done", !.exit = "Success",
                                           !.stored = embedding.texts]
                    ELSE [embedding EXCEPT !.pc = "done", !.exit = "VectorStoreError"]
    /\ UNCHANGED <<txVars, compiled, client, cacheRef, clock, got, debounce>>

\* the fiber of the call is interrupted where it is suspended
InterruptEmbedding ==
    /\ embedding.fn # "none"
    /\ embedding.pc \in {"embedMany", "Schedule.fixed", "storeEmbeddingBatch"}
    /\ embedding' = [embedding EXCEPT !.pc = "done", !.exit = "Interrupt"]
    /\ UNCHANGED <<txVars, compiled, client, cacheRef, clock, got, debounce>>

InitEmbedding ==
    /\ gated = FALSE
    /\ Idle
    /\ compiled = NoStatement
    /\ client = NoClient
    /\ CacheService
    /\ debounce = NoDebounce
    /\ \/ \E users, orders, products \in 0..MaxItems :
            embedding = EmbeddingCall("syncDataToVectorStore", users, orders,
                                      products, users + orders + products)
       \/ \E texts \in 0..MaxItems :
            embedding = EmbeddingCall("generateBatchEmbeddings", 0, 0, 0, texts)

NextEmbedding ==
    \/ \E ok \in BOOLEAN : FetchAll(ok)
    \/ CheckTexts
    \/ \E answer \in {"ok", "fail", "die"} : EmbedMany(answer)
    \/ ScheduleFixed
    \/ \E ok \in BOOLEAN : StoreEmbeddingBatch(ok)
    \/ InterruptEmbedding

SpecEmbedding == InitEmbedding /\ [][NextEmbedding]_vars

\* ------------------------------------------------------------- claims ----
Positions(f, sql) == {i \in 1..Len(sent[f]) : sent[f][i].sql = sql}

\* the top-level withTransaction call of fiber f has returned
Returned(f) == /\ PgliteTransaction[f] = <<>>
               /\ pc[f] \in {"idle", "dead"}
               /\ result[f].op = "tx"

\* the statements of fiber f's trace other than those of execute
IsControl(e) == e.sql # "INSERT"
Control(f) ==
    LET c == SelectSeq(sent[f], IsControl)
    IN  [i \in 1..Len(c) |-> [sql |-> c[i].sql, id |-> c[i].id]]

\* the returned call's body was two successful inserts and nothing else
TwoInserts(f) ==
    /\ Returned(f)
    /\ result[f].ran
    /\ result[f].body = {}
    /\ Cardinality(Positions(f, "INSERT")) = 2
    /\ \A i \in Positions(f, "INSERT") : sent[f][i].res = "ok"
    /\ Positions(f, "SAVEPOINT") = {}

\* C1: a top-level withTransaction whose body is two successful inserts sends
\* exactly one BEGIN and exactly one COMMIT, the BEGIN before the first insert
\* and the COMMIT after the second.
C1_OneBeginOneCommit ==
    \A f \in Fibers :
        TwoInserts(f) =>
            /\ Cardinality(Positions(f, "BEGIN")) = 1
            /\ Cardinality(Positions(f, "COMMIT")) = 1
            /\ \A i \in Positions(f, "INSERT") :
                 /\ \A b \in Positions(f, "BEGIN") : b < i
                 /\ \A c \in Positions(f, "COMMIT") : i < c

C1_Witness == \E f \in Fibers : TwoInserts(f)

\* C2: in a top-level withTransaction whose BEGIN succeeded, no ROLLBACK has
\* reached the engine when the body runs, and the engine's transaction block
\* opened by BEGIN is still open.
C2_OpenAfterAcquire ==
    \A f \in Fibers :
        (pc[f] = "body" /\ Len(PgliteTransaction[f]) = 1) =>
            /\ Positions(f, "ROLLBACK") = {}
            /\ txOpen

\* the returned call's body was one successful insert followed by a nested
\* withTransaction whose body threw, the failure being handled by the body
ScenarioC(f) ==
    /\ Returned(f)
    /\ result[f].ran
    /\ result[f].body = {}
    /\ \E i \in Positions(f, "INSERT") :
         /\ Positions(f, "INSERT") = {i}
         /\ sent[f][i].res = "ok"
         /\ Positions(f, "SAVEPOINT") = {i + 1}
         /\ Positions(f, "ROLLBACK_TO") = {i + 2}
    /\ \A i \in 1..Len(sent[f]) : sent[f][i].res = "ok"

\* C3: an insert followed by a nested withTransaction that throws sends the
\* engine exactly BEGIN, SAVEPOINT 1, ROLLBACK TO SAVEPOINT 1, COMMIT.
C3_NestedSequence ==
    \A f \in Fibers :
        ScenarioC(f) =>
            Control(f) = <<BEGIN, savepoint(1), rollbackSavepoint(1), COMMIT>>

\* a nested withTransaction of fiber f has just rolled back to its savepoint
\* and the parent body goes on
NestedRolledBack(f) ==
    /\ pc[f] = "body"
    /\ result[f].op = "tx"
    /\ result[f].id > 0
    /\ result[f].ran
    /\ result[f].cause # {}
    /\ Last(sent[f]).sql = "ROLLBACK_TO"
    /\ Last(sent[f]).res = "ok"

\* C4: after a nested rollback the parent is one level up and its transaction
\* is still open on the engine, so that its commit can succeed.
C4_ParentViable ==
    \A f \in Fibers :
        NestedRolledBack(f) =>
            /\ Len(PgliteTransaction[f]) = result[f].id
            /\ txOpen

\* the top-level call of fiber f returned after its body was interrupted
Cancelled(f) ==
    /\ Returned(f)
    /\ result[f].ran
    /\ Interrupt \in result[f].body

C6_OneInFlight ==
    /\ Cardinality({f \in Fibers : AwaitingEngine(f)}) <= 1
    /\ \A f \in Fibers :
         (AwaitingEngine(f) /\ PgliteTransaction[f] = <<>>) => semaphore = f

\* C7: while a fiber is between its BEGIN and the answer to its final COMMIT
\* or ROLLBACK, no statement of another fiber is in flight.
C7_TransactionExcludes ==
    \A f, g \in Fibers :
        (f # g /\ PgliteTransaction[f] # <<>>) => ~AwaitingEngine(g)

\* a withTransaction of fiber f, at any depth, returned after its body failed
\* with a typed error or a defect
BodyFailed(f) ==
    /\ result[f].op = "tx"
    /\ result[f].ran
    /\ result[f].body # {}
    /\ Interrupt \notin result[f].body

\* C8: when the body fails, the rollback of its depth is the statement that
\* closes the call, no COMMIT is sent for it, and the call fails with the
\* body's own error.
C8_BodyFailureRollsBack ==
    \A f \in Fibers :
        BodyFailed(f) =>
            /\ result[f].cause = result[f].body
            /\ \E i \in 1..Len(sent[f]) :
                 /\ sent[f][i].sql = (IF result[f].id = 0 THEN "ROLLBACK" ELSE "ROLLBACK_TO")
                 /\ sent[f][i].id = result[f].id
                 /\ i > 2
            /\ result[f].id = 0 => Positions(f, "COMMIT") = {}

\* C9: when BEGIN, SAVEPOINT or COMMIT is rejected, the next statement is a
\* rollback (the rejected statement is not sent again), and the call's outcome
\* contains the failure of the rejected statement, also when that rollback is
\* rejected too.
C9_ProtocolFailure ==
    \A f \in Fibers :
        /\ Returned(f) =>
             \A i \in Positions(f, "BEGIN") \cup Positions(f, "COMMIT") :
                 sent[f][i].res = "err" =>
                     /\ i < Len(sent[f])
                     /\ sent[f][i + 1].sql = "ROLLBACK"
                     /\ \/ Fail(sent[f][i].sql) \in result[f].cause
                        \/ Die(sent[f][i].sql) \in result[f].cause
        /\ (result[f].op = "tx" /\ result[f].id > 0 /\ ~result[f].ran) =>
             \/ Fail("SAVEPOINT") \in result[f].cause
             \/ Die("SAVEPOINT") \in result[f].cause

\* C10: a statement of execute issued inside withTransaction got its
\* connection from the ambient transaction, and no fiber inside a transaction
\* is taking the permit.
C10_AmbientConnection ==
    \A f \in Fibers :
        PgliteTransaction[f] # <<>> =>
            /\ pc[f] \notin {"take", "held"}
            /\ pc[f] = "query" => route[f] = "onSome"

C10_Witness ==
    \E f \in Fibers :
        /\ Len(PgliteTransaction[f]) = 2
        /\ pc[f] = "query"

\* C20: a top-level withTransaction that has returned sent exactly one
\* terminal statement, a COMMIT or a ROLLBACK, and that statement is the last
\* one of the call: no transaction-control statement follows it.
C20_OneTerminal ==
    \A f \in Fibers :
        Returned(f) =>
            /\ Cardinality(Positions(f, "COMMIT") \cup Positions(f, "ROLLBACK")) = 1
            /\ Last(sent[f]).sql \in {"COMMIT", "ROLLBACK"}

\* Option.none(): the empty Option
None == [_tag |-> "None", value |-> "none"]

\* key has an item that was set less than TTL ago and not cleared since
Fresh(key) ==
    /\ cacheRef[key] # NoItem
    /\ clock.now - cacheRef[key].timestamp < TTL

\* C19: get(key) returns Some of the value of the most recent set(key, value)
\* exactly when that set happened less than TTL ago with no clear() since,
\* otherwise it returns None; and get leaves the cache contents as they were.
C19_GetWithinTTL ==
    got # NoCall =>
        /\ got.returned = (IF Fresh(got.key)
                           THEN Option_some(cacheRef[got.key].data)
                           ELSE None)
        /\ cacheRef = got.before

\* the last statement was rejected by the engine
QueryRejected == client.phase # "none" /\ client.last # NoQuery /\ ~client.last.answer.ok

\* C11: a rejected query of run, runRaw, execute, executeRaw,
\* executeUnprepared or executeValues is a typed SqlError failure whose error
\* carries the engine's cause and the text of the statement that failed.
C11_TypedFailure ==
    QueryRejected =>
        LET ex == client.last.exit
        IN  /\ ex._tag = "Failure"
            /\ ex.error._tag = "SqlError"
            /\ ex.error.cause = client.last.answer.cause
            /\ \E k \in DOMAIN ex.error : ex.error[k] = client.last.sql

\* the values of a row's fields, in column order
ValuesOf(row) == [j \in 1..Len(row.fields) |-> row.fields[j].value]

\* C15: executeValues succeeds with one positional array per row returned by
\* the engine, holding that row's column values in column order: a row with
\* k columns gives an array of length k.
C15_PositionalRows ==
    (client.phase # "none" /\ client.last.method = "executeValues"
        /\ client.last.answer.ok) =>
        LET ex == client.last.exit
            rows == client.last.answer.rows
        IN  /\ ex._tag = "Success"
            /\ Len(ex.value) = Len(rows)
            /\ \A i \in 1..Len(rows) :
                 /\ Len(ex.value[i]) = Len(rows[i].fields)
                 /\ ex.value[i] = ValuesOf(rows[i])

\* the client made its own engine and its scope has been closed
OwnClosed == client.phase = "closed" /\ client.sdk = "created"

\* C16: the engine the client created itself has been closed exactly once
\* when the client's scope has closed, however the scope ended, and it is
\* not closed while the scope is open.
C16_ReleasedOnce ==
    client.phase # "none" =>
        /\ OwnClosed => client.closed = 1
        /\ client.phase # "closed" => client.closed = 0

C16_Witness == OwnClosed /\ client.exit = "interrupt" /\ client.last # NoQuery

\* execute on a client built from liveClient was answered with rows
LiveExecuted ==
    /\ client.phase # "none"
    /\ client.sdk = "liveClient"
    /\ client.last.method = "execute"
    /\ client.last.answer.ok

\* C18: execute on a client built from liveClient succeeds with exactly the
\* rows the engine returned, one element per row in the same order; the field
\* names are transformed only when transformResultNames is configured.
C18_LiveExecute ==
    LiveExecuted =>
        LET ex == client.last.exit
            rows == client.last.answer.rows
        IN  /\ ex._tag = "Success"
            /\ Len(ex.value) = Len(rows)
            /\ ~client.transformResultNames => ex.value = rows
            /\ \A i \in 1..Len(rows) :
                 /\ ValuesOf(ex.value[i]) = ValuesOf(rows[i])
                 /\ client.transformResultNames =>
                      \A j \in 1..Len(rows[i].fields) :
                          ex.value[i].fields[j].name =
                              transformResultNames(rows[i].fields[j].name)

C18_Witness ==
    /\ LiveExecuted
    /\ ~client.transformResultNames
    /\ Len(client.last.exit.value) = 2

\* the name a quoted identifier stands for: the text between the outer
\* quotes with every doubled quote read as one; a single quote before the end
\* or a missing closing quote makes the text no quoted identifier
RECURSIVE unquote(_, _)
unquote(str, acc) ==
    IF str = <<>> THEN [ok |-> FALSE, name |-> acc]
    ELSE IF Head(str) # "\"" THEN unquote(Tail(str), Append(acc, Head(str)))
    ELSE IF Len(str) = 1 THEN [ok |-> TRUE, name |-> acc]
    ELSE IF str[2] = "\"" THEN unquote(Tail(Tail(str)), Append(acc, "\""))
    ELSE [ok |-> FALSE, name |-> acc]

decode(str) ==
    IF str # <<>> /\ Head(str) = "\""
    THEN unquote(Tail(str), <<>>)
    ELSE [ok |-> FALSE, name |-> <<>>]

\* the name that is to be quoted: transformed when a transform is configured
\* and not suppressed, otherwise unchanged
Quoted ==
    IF compiled.hasTransform /\ ~compiled.withoutTransform
    THEN transform(compiled.value)
    ELSE compiled.value

IdentifierCompiled == compiled.op = "onIdentifier" /\ compiled.done

NoDot(str) == \A i \in 1..Len(str) : str[i] # "."

InsertCompiled == compiled.op = "onInsert" /\ compiled.done

\* the position of cell c of row r in a row-major list of rows of n cells
RowMajor(r, c, n) == (r - 1) * n + c

AsParameter(a) ==
    IF a.typeof = "object" THEN [typeof |-> "string", text |-> a.text] ELSE a

UpdateCompiled == compiled.op = "onRecordUpdate" /\ compiled.done

\* the SET clauses whose assignment target is the column name, bare or quoted
Targets(name) ==
    {i \in 1..Len(compiled.out.sql.set) :
        compiled.out.sql.set[i].col \in {name, escape(name)}}

\* C14: in a bulk update no SET clause assigns the key column id, in
\* whatever form its name reaches the compiler, and every other column has
\* exactly one CASE clause.
C14_KeyExcluded ==
    UpdateCompiled =>
        /\ Targets(id) = {}
        /\ \A k \in 1..Len(compiled.keys) :
             compiled.keys[k] # id => Cardinality(Targets(compiled.keys[k])) = 1

\* C17: compiling an insert with no rows or no columns fails with an error
\* and yields no SQL text.
C17_EmptyInsertFails ==
    (InsertCompiled /\ (compiled.values = <<>> \/ compiled.keys = <<>>)) =>
        compiled.out.error

\* the counters of fiber f's active withTransaction calls are 0, 1, 2, ...
\* from the outermost inwards: each context carries its own counter
CountersByDepth(f) ==
    \A k \in 1..Len(PgliteTransaction[f]) : PgliteTransaction[f][k] = k - 1

\* C21: a nested withTransaction entered at depth n sends one SAVEPOINT,
\* named by n + 1 from the counter of its own context, and when it fails its
\* ROLLBACK TO SAVEPOINT names the savepoint that this call created.
C21_SavepointNaming ==
    \A f \in Fibers :
        /\ CountersByDepth(f)
        /\ pc[f] = "SAVEPOINT" =>
             /\ Last(sent[f]) = Sending(savepoint(Len(PgliteTransaction[f]) - 1))
             /\ Len(sent[f]) > 1 => sent[f][Len(sent[f]) - 1].res # "sent"
        /\ pc[f] = "ROLLBACK_TO" =>
             /\ Last(sent[f]) = Sending(rollbackSavepoint(Last(PgliteTransaction[f])))
             /\ \E i \in Positions(f, "SAVEPOINT") :
                  /\ sent[f][i].id = Last(sent[f]).id
                  /\ \A j \in Positions(f, "SAVEPOINT") :
                       j > i => sent[f][j].id > sent[f][i].id

\* a nested call is rolling back while another fiber is inside a transaction
\* of its own
C21_Witness ==
    \E f, g \in Fibers :
        /\ f # g
        /\ pc[f] = "ROLLBACK_TO"
        /\ Len(PgliteTransaction[f]) = 2
        /\ PgliteTransaction[g] = <<0>>

\* fiber f's call had a nested withTransaction, nothing was rolled back to a
\* savepoint and every statement so far was accepted
NestedAllGood(f) ==
    /\ Positions(f, "SAVEPOINT") # {}
    /\ Positions(f, "ROLLBACK_TO") = {}
    /\ \A i \in 1..Len(sent[f]) : sent[f][i].res \in {"ok", "sent"}

\* the statement-level part of C22: a COMMIT or ROLLBACK that follows a
\* SAVEPOINT is the closing statement of depth 0, the last of the call, and
\* there is one COMMIT at most
NestedSilent(f) ==
    /\ \A i \in Positions(f, "COMMIT") \cup Positions(f, "ROLLBACK") :
         \A s \in Positions(f, "SAVEPOINT") :
             i > s => /\ i = Len(sent[f])
                      /\ PgliteTransaction[f] \in {<<>>, <<0>>}
    /\ Cardinality(Positions(f, "COMMIT")) <= 1

\* C22: a nested withTransaction whose body succeeds sends neither COMMIT nor
\* ROLLBACK and leaves the call one level up; the only COMMIT is the one of
\* depth 0, and when it is sent the transaction opened by BEGIN is still open
\* on the engine, so that the nested work is committed with the parent's.
C22_NestedSuccessSilent ==
    \A f \in Fibers :
        NestedAllGood(f) =>
            /\ NestedSilent(f)
            /\ pc[f] = "COMMIT" => txOpen

\* C23: while the query of a statement outside any transaction is in flight,
\* the fiber that sent it holds the permit.
C23_PermitDuringQuery ==
    \A f \in Fibers :
        (pc[f] = "query" /\ PgliteTransaction[f] = <<>>) => semaphore = f


\* the helpers that were compiled
HelperCompiled ==
    /\ compiled.op \in {"onInsert", "onRecordUpdate", "onRecordUpdateSingle"}
    /\ compiled.done
    /\ ~compiled.out.error

\* the indexes of the placeholders that stand in the text of a compiled helper
PlaceholderIndexes ==
    LET sql == compiled.out.sql
    IN  IF compiled.op = "onInsert"
        THEN {sql.values[g][c][2] : g \in 1..Len(sql.values),
                                    c \in 1..Len(compiled.keys)}
        ELSE IF compiled.op = "onRecordUpdateSingle"
        THEN {sql.set[i].place[2] : i \in 1..Len(sql.set)}
        ELSE {sql.set[i].cases[r].when[2] :
                  i \in 1..Len(sql.set), r \in 1..Len(compiled.values)}
             \cup {sql.set[i].cases[r].then[2] :
                  i \in 1..Len(sql.set), r \in 1..Len(compiled.values)}
             \cup {sql.where[r][2] : r \in 1..Len(sql.where)}

\* C24: the text of a compiled bulk insert, bulk update or single-record
\* update, with or without RETURNING, holds as many positional placeholders,
\* each counted once, as the parameter list has elements: $1 to $n for n
\* parameters.
C24_PlaceholdersMatchParams ==
    HelperCompiled => PlaceholderIndexes = 1..Len(compiled.out.params)

\* the position of the key column among the columns of a bulk update
KeyAt == CHOOSE k \in 1..Len(compiled.keys) : compiled.keys[k] = id

\* a bulk update over columns that hold the key column was compiled
BulkUpdateCompiled ==
    /\ compiled.op = "onRecordUpdate"
    /\ compiled.done
    /\ \E k \in 1..Len(compiled.keys) : compiled.keys[k] = id

\* C25: in a compiled bulk update, wherever the key column sits, the clause
\* of row r for a non-key column c reads WHEN key = $i THEN $j with parameter
\* i the key value of row r and parameter j the value of row r for c, and the
\* WHERE key IN list has one placeholder for each row, the key value of that
\* row.
C25_CasePerRow ==
    BulkUpdateCompiled =>
        LET out == compiled.out
            rows == compiled.values
        IN  /\ \A c \in 1..Len(compiled.keys) :
                 c # KeyAt =>
                   \E i \in 1..Len(out.sql.set) :
                     /\ out.sql.set[i].col = escape(compiled.keys[c])
                     /\ \A r \in 1..Len(rows) :
                          /\ out.params[out.sql.set[i].cases[r].when[2]]
                               = primitive(rows[r][KeyAt])
                          /\ out.params[out.sql.set[i].cases[r].then[2]]
                               = primitive(rows[r][c])
            /\ Len(out.sql.where) = Len(rows)
            /\ \A r \in 1..Len(rows) :
                 out.params[out.sql.where[r][2]] = primitive(rows[r][KeyAt])


\* the scope of a client built from liveClient has closed
LiveScopeClosed ==
    /\ client.phase = "closed"
    /\ client.liveClient
    /\ client.sdk = "liveClient"

\* C30: a client built from a liveClient never closes that engine: no
\* finalizer of the client is registered for it and, however the client's
\* scope ends, sdk.close() has not been called.
C30_LiveClientLeftOpen ==
    (client.phase # "none" /\ client.liveClient) =>
        /\ client.finalizers = <<>>
        /\ client.closed = 0

C30_Witness ==
    /\ LiveScopeClosed
    /\ client.exit \in {"failure", "interrupt"}
    /\ client.last # NoQuery


\* the callers that are running the query of a key
Running(key) ==
    {c \in Callers : caller(c).key = key /\ caller(c).pc = "query"}

\* C26: of the concurrent debounceQuery calls with one key, at most one runs
\* the query effect at a time, however the reads of the pending map and its
\* updates interleave.
C26_OneRunner ==
    debounce # NoDebounce =>
        \A key \in Keys : Cardinality(Running(key)) <= 1

Waiting(c) == caller(c).pc = "Queue.take"
Answered(c) == caller(c).pc = "done" /\ caller(c).exit = "Success"
Unhappy == \E c \in Callers : caller(c).exit \in {"Die", "Interrupt"}

\* C27: a debounceQuery caller that found a pending entry eventually returns,
\* unless a query died or a caller was interrupted: every one of the callers
\* waiting on a key is answered.
C27_WaitersAnswered ==
    \A c \in Callers : (debounce # NoDebounce /\ Waiting(c)) ~> (Answered(c) \/ Unhappy)

\* C28: once the caller that put the entry of a key has ended with a dead
\* query or an interrupt, its entry is no longer in the pending map.
C28_EntryRemoved ==
    debounce # NoDebounce =>
        \A c \in Callers :
            (caller(c).pc = "done" /\ caller(c).exit \in {"Die", "Interrupt"}) =>
                \A key \in Keys : debounce.pendingQueries[key] # c


\* embedMany has been called and the call of the function has ended
EmbeddingEnded == embedding.fn # "none" /\ embedding.pc = "done"

\* C29: syncDataToVectorStore and generateBatchEmbeddings call embedMany three
\* times at most, make no call after one that succeeded, and end with
\* EmbeddingError only after three calls that all failed; a sync whose
\* embedding generation did not succeed has stored nothing.
C29_ThreeAttempts ==
    embedding.fn # "none" =>
        LET calls == embedding.calls
        IN  /\ Len(calls) <= 3
            /\ \A i \in 1..(Len(calls) - 1) : calls[i] = "fail"
            /\ embedding.exit = "EmbeddingError" =>
                 /\ Len(calls) = 3
                 /\ \A i \in 1..3 : calls[i] = "fail"
            /\ (calls = <<>> \/ calls[Len(calls)] # "ok") => embedding.stored = 0

C29_Witness ==
    /\ EmbeddingEnded
    /\ embedding.fn = "syncDataToVectorStore"
    /\ embedding.texts > 0
    /\ embedding.exit = "EmbeddingError"
    /\ Len(embedding.calls) = 3

====
